---- MODULE Spec2Model ----
(***************************************************************************)
(* Model of openfermioncirq/state_preparation.py: the circuit assembler    *)
(* for fermionic Gaussian states.  Every behaviour is one invocation of    *)
(* one function of the module (the module keeps no state between calls):   *)
(* the inputs and the values returned by the external OpenFermion routines *)
(* are drawn from bounded sets, and the action computes the flattened      *)
(* sequence of gate operations the returned generator yields.              *)
(*                                                                         *)
(* Conventions.  Python indices are 0-based, TLA+ sequences 1-based: the   *)
(* Python element s[i] is s[i + 1] here.  Angles are integer multiples of  *)
(* pi/4 and gate exponents integer multiples of 1/4, so that               *)
(* 2 * theta / pi is 2 * theta and phi / pi is phi in these units.         *)
(***************************************************************************)
EXTENDS Integers, Sequences, FiniteSets, TLC

\* ------------------------------------------------------------------ bounds
MaxN == 2           \* number of qubits: 0..MaxN
MaxOps == 2         \* items in the circuit descriptions an external call returns
MaxLayers == 2      \* layers in the circuit descriptions an external call returns
MaxRank == 2        \* number of dimensions of the transformation matrix
MaxStart == 2       \* length of the start-orbitals list
MaxModes == 6       \* mode count of a direct call of _occupied_orbitals

\* Python's None for the optional initial_state (an int otherwise).
None == -1

\* Angles (theta, phi) the external decompositions return, in units of pi/4.
Angles == {<<1, 3>>}

VARIABLES
    op,             \* the function that was called ("none" before the call)
    qubits,         \* argument qubits: a sequence of LineQubit indices
    shape,          \* transformation_matrix.shape (or the matrix's shape)
    initial_state,  \* argument initial_state (None or an int)
    returned,       \* what the external OpenFermion routines returned
    objects,        \* the same objects when the generator is exhausted
    n_qubits,       \* the mode count the call works with
    orbitals,       \* the value of the last _occupied_orbitals call
    out,            \* the gate operations yielded, flattened, in order
    err             \* the exception raised ("none" when there is none)

vars == <<op, qubits, shape, initial_state, returned, objects, n_qubits, orbitals, out, err>>

\* ------------------------------------------------------------ gate values
X(q) == [gate |-> "X", on |-> <<q>>, exponent |-> 4]
YXXY(p, q) == [gate |-> "YXXY", on |-> <<p, q>>, exponent |-> 4]
Z(q) == [gate |-> "Z", on |-> <<q>>, exponent |-> 4]
\* gate ** e, for a gate of exponent 1
Pow(g, e) == [g EXCEPT !.exponent = e]

\* ------------------------------------------------- circuit descriptions
Pht == [kind |-> "pht", i |-> 0, j |-> 0, theta |-> 0, phi |-> 0]
Rot(i, j, theta, phi) == [kind |-> "rot", i |-> i, j |-> j, theta |-> theta, phi |-> phi]

\* The items a decomposition over n modes can hold.
Items(n) ==
    (IF n >= 1 THEN {Pht} ELSE {})
    \cup {Rot(m[1], m[2], a[1], a[2]) :
             m \in {p \in (0..(n-1)) \X (0..(n-1)) : p[1] # p[2]}, a \in Angles}

RECURSIVE Sum(_)
Sum(s) == IF s = <<>> THEN 0 ELSE Head(s) + Sum(Tail(s))

\* Layer sizes: at most MaxLayers layers holding k items in all.
LayerSizes(k) ==
    {s \in UNION {[1..l -> 0..k] : l \in 0..MaxLayers} : Sum(s) = k}

\* A circuit description of at most MaxOps items in at most MaxLayers layers
\* is Cut(flat, s) for a sequence flat of items and layer sizes s.
\* The description whose layers have the sizes s and whose items, in order,
\* are those of flat.
RECURSIVE Cut(_, _)
Cut(flat, s) ==
    IF s = <<>> THEN <<>>
    ELSE <<SubSeq(flat, 1, Head(s))>> \o Cut(SubSeq(flat, Head(s) + 1, Len(flat)), Tail(s))

\* ------------------------------------------------------- Python built-ins
\* bin(x)[2:] for x >= 0: the binary digits, most significant first
RECURSIVE bin(_)
bin(x) == IF x < 2 THEN <<IF x = 1 THEN "1" ELSE "0">>
          ELSE bin(x \div 2) \o <<IF x % 2 = 1 THEN "1" ELSE "0">>

\* zfill left out: the digits are not padded to the width
zfill_none(s, width) == s

\* str.zfill(width)
zfill(s, width) ==
    IF Len(s) >= width THEN s ELSE [k \in 1..(width - Len(s)) |-> "0"] \o s

\* the reversal left out
reversed_not(l) == l

RECURSIVE reversed(_)
reversed(l) == IF l = <<>> THEN <<>> ELSE reversed(Tail(l)) \o <<Head(l)>>

\* list(reversed(l)): a new list; the argument is left as it was
list_reversed(l) == [value |-> reversed(l), arg |-> l]

\* ------------------------------------------------- external return values
\* The values the OpenFermion routines hand back to one call: decomposition
\* (givens_decomposition_square, fermionic_gaussian_decomposition),
\* left_decomposition (fermionic_gaussian_decomposition), circuit_description
\* (slater_determinant_preparation_circuit, gaussian_state_preparation_circuit)
\* and start_orbitals (gaussian_state_preparation_circuit).  A routine the
\* call does not reach returns nothing: its field stays empty.
External(d, l, c, s) ==
    [decomposition |-> d, left_decomposition |-> l, circuit_description |-> c, start_orbitals |-> s]

NoExternal == External(<<>>, <<>>, <<>>, <<>>)

\* What a call hands back: the gates yielded, the exception raised, the set
\* _occupied_orbitals returned, and the external objects after the call.
Result(o, e, occ, obj) == [out |-> o, err |-> e, orbitals |-> occ, objects |-> obj]

\* ---------------------------------------------------- _occupied_orbitals
_occupied_orbitals(computational_basis_state, n) ==
    LET bitstring == zfill(bin(computational_basis_state), n)
    IN {j \in 0..(Len(bitstring) - 1) : bitstring[j + 1] = "1"}

\* ----------------------- _ops_from_givens_rotations_circuit_description
\* qubits[0] in place of qubits[-1]
LastQubit_first(qs) == qs[1]

\* qubits[-1]
LastQubit(qs) == qs[Len(qs)]

\* the body of the inner loop: the operations one item yields
ops_from_item(qs, item) ==
    IF item.kind = "pht" THEN <<X(LastQubit(qs))>>
    ELSE <<Pow(YXXY(qs[item.i + 1], qs[item.j + 1]), 2 * item.theta),
           Pow(Z(qs[item.j + 1]), item.phi)>>

\* for op in parallel_ops
RECURSIVE ops_from_layer(_, _)
ops_from_layer(qs, parallel_ops) ==
    IF parallel_ops = <<>> THEN <<>>
    ELSE ops_from_item(qs, Head(parallel_ops)) \o ops_from_layer(qs, Tail(parallel_ops))

\* for parallel_ops in circuit_description
RECURSIVE _ops_from_givens_rotations_circuit_description(_, _)
_ops_from_givens_rotations_circuit_description(qs, circuit_description) ==
    IF circuit_description = <<>> THEN <<>>
    ELSE ops_from_layer(qs, Head(circuit_description))
         \o _ops_from_givens_rotations_circuit_description(qs, Tail(circuit_description))

\* --------------------------------------------------- _slater_basis_change
\* == in place of != in the condition
NeedsFlip_same(j, n_occupied, occupied_orbitals) ==
    (j < n_occupied) = (j \in occupied_orbitals)

\* the condition of the generator expression of lines 117-118
NeedsFlip(j, n_occupied, occupied_orbitals) ==
    (j < n_occupied) # (j \in occupied_orbitals)

\* (cirq.X(qubits[j]) for j in range(n) if ...)
RECURSIVE FlipOps(_, _, _, _)
FlipOps(qs, js, n_occupied, occupied_orbitals) ==
    IF js = <<>> THEN <<>>
    ELSE (IF NeedsFlip(Head(js), n_occupied, occupied_orbitals)
          THEN <<X(qs[Head(js) + 1])>> ELSE <<>>)
         \o FlipOps(qs, Tail(js), n_occupied, occupied_orbitals)

\* the range walked downwards
range_down(n) == [k \in 1..n |-> n - k]

\* range(n)
range(n) == [k \in 1..n |-> k - 1]

_slater_basis_change(qs, matrix_shape, state, ext) ==
    LET n == matrix_shape[1]
    IN IF state = None
       THEN LET r == list_reversed(ext.decomposition)
            IN Result(_ops_from_givens_rotations_circuit_description(qs, r.value),
                      "none", {}, [ext EXCEPT !.decomposition = r.arg])
       ELSE LET occupied_orbitals == _occupied_orbitals(state, n)
                n_occupied == Cardinality(occupied_orbitals)
            IN IF \E j \in occupied_orbitals : j >= matrix_shape[1]
               THEN \* transformation_matrix[list(occupied_orbitals)]: no such row
                    Result(<<>>, "IndexError", occupied_orbitals, ext)
               ELSE Result(FlipOps(qs, range(n), n_occupied, occupied_orbitals)
                           \o _ops_from_givens_rotations_circuit_description(
                                  qs, ext.circuit_description),
                           "none", occupied_orbitals, ext)

\* ------------------------------------------------- _gaussian_basis_change
\* "not initial_state" in place of "initial_state == 0": None counts as 0
IsVacuum_falsy(state) == state = 0 \/ state = None

\* initial_state == 0
IsVacuum(state) == state = 0

_gaussian_basis_change(qs, matrix_shape, state, ext) ==
    LET circuit_description ==
            IF IsVacuum(state)
            THEN list_reversed(ext.decomposition)
            ELSE list_reversed(ext.decomposition \o ext.left_decomposition)
    IN Result(_ops_from_givens_rotations_circuit_description(qs, circuit_description.value),
              "none", {},
              IF IsVacuum(state)
              THEN [ext EXCEPT !.decomposition = circuit_description.arg] ELSE ext)

\* --------------------------------------------------- bogoliubov_transform
\* only the number of rows compared
IsSlaterShape_rows(matrix_shape, n) == Len(matrix_shape) = 2 /\ matrix_shape[1] = n

IsSlaterShape(matrix_shape, n) == matrix_shape = <<n, n>>

\* the two dimensions exchanged
IsGaussianShape_transposed(matrix_shape, n) == matrix_shape = <<2 * n, n>>

IsGaussianShape(matrix_shape, n) == matrix_shape = <<n, 2 * n>>

bogoliubov_transform(qs, matrix_shape, state, ext) ==
    LET n == Len(qs)
    IN IF IsSlaterShape(matrix_shape, n)
       THEN _slater_basis_change(qs, matrix_shape, state, ext)
       ELSE IF IsGaussianShape(matrix_shape, n)
       THEN _gaussian_basis_change(qs, matrix_shape, state, ext)
       ELSE Result(<<>>, "ValueError", {}, ext)

\* ------------------------------------------------- prepare_gaussian_state
\* the modes walked from the last to the first
XOps_backwards(qs, modes) ==
    [k \in 1..Len(modes) |-> X(qs[modes[Len(modes) + 1 - k] + 1])]

\* for mode in ...: yield cirq.X(qubits[mode])
RECURSIVE XOps(_, _)
XOps(qs, modes) ==
    IF modes = <<>> THEN <<>>
    ELSE <<X(qs[Head(modes) + 1])>> \o XOps(qs, Tail(modes))

prepare_gaussian_state(qs, ext) ==
    Result(XOps(qs, ext.start_orbitals)
           \o _ops_from_givens_rotations_circuit_description(qs, ext.circuit_description),
           "none", {}, ext)

\* --------------------------------------------- prepare_slater_determinant
\* the description rendered before the X gates
prepare_slater_determinant_late(qs, matrix_shape, ext) ==
    Result(_ops_from_givens_rotations_circuit_description(qs, ext.circuit_description)
           \o XOps(qs, range(matrix_shape[1])),
           "none", {}, ext)

prepare_slater_determinant(qs, matrix_shape, ext) ==
    Result(XOps(qs, range(matrix_shape[1]))
           \o _ops_from_givens_rotations_circuit_description(qs, ext.circuit_description),
           "none", {}, ext)

\* ------------------------------------------------------------- the inputs
RECURSIVE Pow2(_)
Pow2(n) == IF n = 0 THEN 1 ELSE 2 * Pow2(n - 1)

\* The qubit sequences of length n a caller passes: LineQubit.range(n), and
\* the line qubits 2n+1, 2n-1, ..., 3 (a qubit's index is not its place in
\* the sequence).
QubitChoices(n) == {[k \in 1..n |-> k - 1], [k \in 1..n |-> 2 * (n - k) + 3]}

\* Shapes of the array passed as the matrix.
Dims == 0..(2 * MaxN + 1)

Shapes == UNION {[1..r -> Dims] : r \in 0..MaxRank}

\* initial_state: absent, a basis state of n qubits, or (it is not validated)
\* the first integer too large for n qubits.
InitialStates(n) == {None} \cup (0..Pow2(n))

\* ------------------------------------------------------------ the machine
Init ==
    /\ op = "none"
    /\ qubits = <<>>
    /\ shape = <<>>
    /\ initial_state = None
    /\ returned = NoExternal
    /\ objects = NoExternal
    /\ n_qubits = 0
    /\ orbitals = {}
    /\ out = <<>>
    /\ err = "none"

Finish(r) ==
    /\ objects' = r.objects
    /\ orbitals' = r.orbitals
    /\ out' = r.out
    /\ err' = r.err

\* A call of bogoliubov_transform with the external return values ext.
BogoliubovCall(qs, sh, state, ext) ==
    /\ op' = "bogoliubov_transform"
    /\ qubits' = qs
    /\ shape' = sh
    /\ initial_state' = state
    /\ returned' = ext
    /\ n_qubits' = Len(qs)
    /\ Finish(bogoliubov_transform(qs, sh, state, ext))

\* Only the external routine the call reaches returns something:
\* givens_decomposition_square, slater_determinant_preparation_circuit or
\* fermionic_gaussian_decomposition (a decomposition and a left
\* decomposition: a description cut in two at a layer boundary).
BogoliubovTransform ==
    /\ op = "none"
    /\ \E n \in 0..MaxN : \E qs \in QubitChoices(n) : \E sh \in Shapes :
       \E state \in InitialStates(n) :
          IF sh = <<n, n>>
          THEN IF state = None
               THEN \E k \in 0..MaxOps : \E flat \in [1..k -> Items(n)] :
                    \E s \in LayerSizes(k) :
                       BogoliubovCall(qs, sh, state,
                                      External(Cut(flat, s), <<>>, <<>>, <<>>))
               ELSE IF \E j \in _occupied_orbitals(state, n) : j >= n
               THEN BogoliubovCall(qs, sh, state, NoExternal)
               ELSE \E k \in 0..MaxOps : \E flat \in [1..k -> Items(n)] :
                    \E s \in LayerSizes(k) :
                       BogoliubovCall(qs, sh, state,
                                      External(<<>>, <<>>, Cut(flat, s), <<>>))
          ELSE IF sh = <<n, 2 * n>>
          THEN \E k \in 0..MaxOps : \E flat \in [1..k -> Items(n)] :
               \E s \in LayerSizes(k) : \E c \in 0..Len(s) :
                  BogoliubovCall(qs, sh, state,
                                 External(SubSeq(Cut(flat, s), 1, c),
                                          SubSeq(Cut(flat, s), c + 1, Len(s)),
                                          <<>>, <<>>))
          ELSE BogoliubovCall(qs, sh, state, NoExternal)

PrepareGaussianState ==
    /\ op = "none"
    /\ \E n \in 0..MaxN : \E qs \in QubitChoices(n) :
       \E k \in 0..MaxOps : \E flat \in [1..k -> Items(n)] : \E s \in LayerSizes(k) :
       \E l \in 0..MaxStart : \E start \in [1..l -> 0..(n - 1)] :
          LET ext == External(<<>>, <<>>, Cut(flat, s), start)
          IN /\ op' = "prepare_gaussian_state"
             /\ qubits' = qs
             /\ returned' = ext
             /\ n_qubits' = Len(qs)
             /\ Finish(prepare_gaussian_state(qs, ext))
             /\ UNCHANGED <<shape, initial_state>>

PrepareSlaterDeterminant ==
    /\ op = "none"
    /\ \E n \in 0..MaxN : \E qs \in QubitChoices(n) : \E eta \in 0..n :
       \E k \in 0..MaxOps : \E flat \in [1..k -> Items(n)] : \E s \in LayerSizes(k) :
          LET ext == External(<<>>, <<>>, Cut(flat, s), <<>>)
          IN /\ op' = "prepare_slater_determinant"
             /\ qubits' = qs
             /\ shape' = <<eta, n>>
             /\ returned' = ext
             /\ n_qubits' = Len(qs)
             /\ Finish(prepare_slater_determinant(qs, <<eta, n>>, ext))
             /\ UNCHANGED initial_state

OpsFromCircuitDescription ==
    /\ op = "none"
    /\ \E n \in 0..MaxN : \E qs \in QubitChoices(n) :
       \E k \in 0..MaxOps : \E flat \in [1..k -> Items(n)] : \E s \in LayerSizes(k) :
          LET ext == External(<<>>, <<>>, Cut(flat, s), <<>>)
          IN /\ op' = "_ops_from_givens_rotations_circuit_description"
             /\ qubits' = qs
             /\ returned' = ext
             /\ n_qubits' = Len(qs)
             /\ Finish(Result(_ops_from_givens_rotations_circuit_description(
                                  qs, ext.circuit_description),
                              "none", {}, ext))
             /\ UNCHANGED <<shape, initial_state>>

OccupiedOrbitals ==
    /\ op = "none"
    /\ \E n \in 0..MaxModes : \E x \in 0..Pow2(n) :
          /\ op' = "_occupied_orbitals"
          /\ initial_state' = x
          /\ n_qubits' = n
          /\ Finish(Result(<<>>, "none", _occupied_orbitals(x, n), NoExternal))
          /\ UNCHANGED <<qubits, shape, returned>>

Next ==
    \/ BogoliubovTransform
    \/ PrepareGaussianState
    \/ PrepareSlaterDeterminant
    \/ OpsFromCircuitDescription
    \/ OccupiedOrbitals

Spec == Init /\ [][Next]_vars

\* =================================================================== claims
\* What the claims speak of, stated from their words and not from the
\* operators above.
NQ == Len(qubits)

\* the layers of d in reversed order, each layer as it is
Rev(d) == [k \in 1..Len(d) |-> d[Len(d) + 1 - k]]

\* the image of one item: a marker gives X on the last qubit, a rotation
\* (i, j, theta, phi) gives YXXY(i, j) ** (2 theta / pi), then Z(j) ** (phi / pi)
Image(item) ==
    IF item.kind = "pht"
    THEN <<[gate |-> "X", on |-> <<qubits[NQ]>>, exponent |-> 4]>>
    ELSE <<[gate |-> "YXXY", on |-> <<qubits[item.i + 1], qubits[item.j + 1]>>,
            exponent |-> 2 * item.theta],
           [gate |-> "Z", on |-> <<qubits[item.j + 1]>>, exponent |-> item.phi]>>

\* the concatenation of the images of the first k items of the layer
RECURSIVE LayerImage(_, _)
LayerImage(layer, k) ==
    IF k = 0 THEN <<>> ELSE LayerImage(layer, k - 1) \o Image(layer[k])

\* the concatenation, over the first k layers of d, of the layers' images
RECURSIVE Rendering(_, _)
Rendering(d, k) ==
    IF k = 0 THEN <<>> ELSE Rendering(d, k - 1) \o LayerImage(d[k], Len(d[k]))

Rendered(d) == Rendering(d, Len(d))

\* the number of items of d that are markers
RECURSIVE Markers(_, _)
Markers(d, k) ==
    IF k = 0 THEN 0
    ELSE Markers(d, k - 1) + Cardinality({m \in 1..Len(d[k]) : d[k][m].kind = "pht"})

\* the X gates on the qubits of the modes ms, in the order of ms
XGates(ms) == [k \in 1..Len(ms) |-> [gate |-> "X", on |-> <<qubits[ms[k] + 1]>>, exponent |-> 4]]

\* the place in the supplied sequence of the qubit a one-qubit gate acts on
Place(g) == CHOOSE i \in 0..(NQ - 1) : qubits[i + 1] = g.on[1]

\* bit b (bit 0 the least significant) of x
Bit(x, b) == (x \div Pow2(b)) % 2

\* the positions of the 1-bits of the n-bit big-endian expansion of x
OnesOf(x, n) == {j \in 0..(n - 1) : Bit(x, n - 1 - j) = 1}

\* the basis state (the set of its 1-bits) after the X gates gs act on state
RECURSIVE AfterX(_, _)
AfterX(state, gs) ==
    IF gs = <<>> THEN state
    ELSE LET p == Place(Head(gs))
         IN AfterX(IF p \in state THEN state \ {p} ELSE state \cup {p}, Tail(gs))

\* The gates the Slater basis change with an initial state yields before the
\* rendered description.
SlaterWithState ==
    /\ op = "bogoliubov_transform"
    /\ shape = <<NQ, NQ>>
    /\ initial_state # None
    /\ err = "none"

Flips == SubSeq(out, 1, Len(out) - Len(Rendered(returned.circuit_description)))

\* C1: a transformation matrix whose shape is neither (N, N) nor (N, 2N) ends
\* bogoliubov_transform in a ValueError with no gate emitted; a shape that is
\* one of the two never raises that error and the call ends with a finite
\* sequence of gates.
Thm_C1 ==
    op = "bogoliubov_transform" =>
        /\ shape \notin {<<NQ, NQ>>, <<NQ, 2 * NQ>>} => (err = "ValueError" /\ out = <<>>)
        /\ shape \in {<<NQ, NQ>>, <<NQ, 2 * NQ>>} => (err # "ValueError" /\ Len(out) \in Nat)

Wit_C1 ==
    /\ op = "bogoliubov_transform"
    /\ NQ = 2
    /\ shape = <<2, 3>>
    /\ err = "ValueError"
    /\ out = <<>>

\* C2 as stated: for every N, N = 0 included, a shape is accepted exactly when
\* it matches exactly one of the forms (N, N) and (N, 2N), never both.
Orig_C2 ==
    op = "bogoliubov_transform" =>
        ((err # "ValueError") <=> ((shape = <<NQ, NQ>>) # (shape = <<NQ, 2 * NQ>>)))

\* C2 amended: for N >= 1 a shape is accepted exactly when it matches exactly
\* one of the two forms; for N = 0 the two forms are the same shape (0, 0),
\* which is accepted, and every other shape is rejected.
Thm_C2 ==
    op = "bogoliubov_transform" =>
        /\ NQ >= 1 =>
              ((err # "ValueError") <=> ((shape = <<NQ, NQ>>) # (shape = <<NQ, 2 * NQ>>)))
        /\ NQ = 0 => ((err # "ValueError") <=> (shape = <<0, 0>>))

Wit_C2 ==
    /\ op = "bogoliubov_transform"
    /\ NQ = 0
    /\ shape = <<0, 0>>
    /\ err = "none"

\* C3: in the Slater basis change with an initial state, the X gates emitted
\* before the description, applied to the basis state whose 1-bits are the
\* occupied orbitals O, leave exactly the qubits 0..|O|-1 set.
Thm_C3 ==
    SlaterWithState =>
        LET flips == Flips
            after == AfterX(orbitals, flips)
        IN /\ \A k \in 1..Len(flips) : flips[k].gate = "X" /\ flips[k].exponent = 4
           /\ after = 0..(Cardinality(orbitals) - 1)
           /\ Cardinality(after) = Cardinality(orbitals)

Wit_C3 ==
    /\ SlaterWithState
    /\ NQ = 2
    /\ initial_state = 1
    /\ orbitals = {1}
    /\ Len(Flips) = 2

\* C4: in the Gaussian basis change the gates are the rendering of the layers
\* of the primary decomposition D in reversed order when initial_state is 0,
\* and otherwise (None included) of the layers of the left decomposition L in
\* reversed order followed by the layers of D in reversed order.
Thm_C4 ==
    (op = "bogoliubov_transform" /\ shape = <<NQ, 2 * NQ>> /\ shape # <<NQ, NQ>>) =>
        /\ err = "none"
        /\ initial_state = 0 => out = Rendered(Rev(returned.decomposition))
        /\ initial_state # 0 =>
              out = Rendered(Rev(returned.left_decomposition) \o Rev(returned.decomposition))

Wit_C4 ==
    /\ op = "bogoliubov_transform"
    /\ shape = <<2, 4>>
    /\ NQ = 2
    /\ initial_state = 0
    /\ Len(returned.decomposition) = 1
    /\ Len(returned.left_decomposition) = 1
    /\ Len(returned.left_decomposition[1]) = 1
    /\ Len(out) = 2

\* C5: for x < 2^N, _occupied_orbitals returns the positions j of 0..N-1 for
\* which bit N-1-j of x is 1: the empty set for 0, all of 0..N-1 for 2^N - 1,
\* and {1, 3, 4} for N = 6 and x = 22.
Thm_C5 ==
    (op = "_occupied_orbitals" /\ initial_state < Pow2(n_qubits)) =>
        /\ orbitals = OnesOf(initial_state, n_qubits)
        /\ initial_state = 0 => orbitals = {}
        /\ initial_state = Pow2(n_qubits) - 1 => orbitals = 0..(n_qubits - 1)
        /\ (n_qubits = 6 /\ initial_state = 22) => orbitals = {1, 3, 4}

Wit_C5 ==
    /\ op = "_occupied_orbitals"
    /\ n_qubits = 6
    /\ initial_state = 22
    /\ orbitals = {1, 3, 4}

\* C6: the renderer's output is the concatenation, over the layers in order
\* and the items of a layer in order, of the items' images: X on the last
\* qubit for a marker; YXXY on qubits i, j with theta, then Z on qubit j with
\* phi, for a rotation.
Thm_C6 ==
    op = "_ops_from_givens_rotations_circuit_description" =>
        out = Rendered(returned.circuit_description)

Wit_C6 ==
    /\ op = "_ops_from_givens_rotations_circuit_description"
    /\ NQ = 2
    /\ qubits[NQ] # NQ - 1
    /\ Len(out) = 3
    /\ out[1].gate = "YXXY"
    /\ out[3] = [gate |-> "X", on |-> <<qubits[NQ]>>, exponent |-> 4]

\* C7: prepare_slater_determinant emits X on the qubits 0, 1, ..., eta-1 in
\* that order and then the rendering of the description as returned, layers
\* not reversed; no rendered gate comes before one of these X gates.
Thm_C7 ==
    op = "prepare_slater_determinant" =>
        /\ err = "none"
        /\ out = XGates([k \in 1..shape[1] |-> k - 1]) \o Rendered(returned.circuit_description)

Wit_C7 ==
    /\ op = "prepare_slater_determinant"
    /\ shape = <<2, 2>>
    /\ Len(returned.circuit_description) = 2
    /\ returned.circuit_description[1] # returned.circuit_description[2]
    /\ Len(out) = 5

\* C8: prepare_gaussian_state emits one X gate per entry of the start-orbitals
\* list, on the qubit of that mode and in the list's order, and only then the
\* rendering of the description as returned, layers not reversed.
Thm_C8 ==
    op = "prepare_gaussian_state" =>
        /\ err = "none"
        /\ out = XGates(returned.start_orbitals) \o Rendered(returned.circuit_description)

Wit_C8 ==
    /\ op = "prepare_gaussian_state"
    /\ returned.start_orbitals = <<1, 0>>
    /\ Len(returned.circuit_description) = 2
    /\ returned.circuit_description[1] # returned.circuit_description[2]
    /\ Len(out) = 5

\* C9: the Slater basis change with no initial state emits the rendering of
\* the square-matrix Givens decomposition with its layers reversed and each
\* layer's items in their order; its only X gates are those of the markers;
\* the decomposition the external routine returned is not mutated.
Thm_C9 ==
    (op = "bogoliubov_transform" /\ shape = <<NQ, NQ>> /\ initial_state = None) =>
        /\ err = "none"
        /\ out = Rendered(Rev(returned.decomposition))
        /\ Cardinality({k \in 1..Len(out) : out[k].gate = "X"})
              = Markers(returned.decomposition, Len(returned.decomposition))
        /\ objects = returned

Wit_C9 ==
    /\ op = "bogoliubov_transform"
    /\ shape = <<2, 2>>
    /\ NQ = 2
    /\ initial_state = None
    /\ Len(returned.decomposition) = 2
    /\ Len(returned.decomposition[1]) = 1
    /\ Len(returned.decomposition[2]) = 1
    /\ returned.decomposition[1] # returned.decomposition[2]
    /\ Len(out) = 3

\* C10: in the Slater basis change with an initial state x < 2^N whose
\* occupied set O has k elements, the X gates emitted before the description
\* are on distinct qubits in ascending order of their places, there are
\* 2 * |{j in O : j >= k}| of them, and none when O is {0, ..., k-1}.
Thm_C10 ==
    (SlaterWithState /\ initial_state < Pow2(NQ)) =>
        LET O == OnesOf(initial_state, NQ)
            k == Cardinality(O)
            flips == Flips
        IN /\ \A a \in 1..Len(flips) : flips[a].gate = "X"
           /\ \A a, b \in 1..Len(flips) : a < b => Place(flips[a]) < Place(flips[b])
           /\ Len(flips) = 2 * Cardinality({j \in O : j >= k})
           /\ O = 0..(k - 1) => flips = <<>>

Wit_C10 ==
    /\ SlaterWithState
    /\ NQ = 2
    /\ initial_state = 1
    /\ Len(Flips) = 2
    /\ Place(Flips[1]) = 0
    /\ Place(Flips[2]) = 1

====
